---- MODULE Spec2Model ----
(***************************************************************************)
(* Model of tools/create_cookbook.py: the CookbookGenerator class.         *)
(*                                                                         *)
(* Text is a sequence of one-character strings; positions are Python's     *)
(* 0-based indices and slices follow Python's rules (negative indices      *)
(* count from the end), because the code's behaviour on find() = -1        *)
(* depends on them.                                                        *)
(***************************************************************************)
EXTENDS Integers, Sequences, FiniteSets, TLC

(***************************************************************************)
(* Bounds of the model.                                                    *)
(***************************************************************************)
\* longest text handed to escape_latex, in characters
MaxLen == 3
\* longest converter output, in tokens (a marker, a label, a newline, ...)
MaxTokens == 4
\* calls of scan_recipes / generate made on one generator object
MaxCalls == 2

(***************************************************************************)
(* Python str primitives.                                                  *)
(***************************************************************************)
Ascii == <<" ", "!", "\"", "#", "$", "%", "&", "'", "(", ")", "*", "+", ",", "-", ".", "/", "0", "1", "2", "3", "4", "5", "6", "7", "8", "9", ":", ";", "<", "=", ">", "?", "@", "A", "B", "C", "D", "E", "F", "G", "H", "I", "J", "K", "L", "M", "N", "O", "P", "Q", "R", "S", "T", "U", "V", "W", "X", "Y", "Z", "[", "\\", "]", "^", "_", "(backquote)", "a", "b", "c", "d", "e", "f", "g", "h", "i", "j", "k", "l", "m", "n", "o", "p", "q", "r", "s", "t", "u", "v", "w", "x", "y", "z", "{", "|", "}", "~">>

\* the characters c with c.isspace(), each with ord(c): the ASCII whitespace
\* \t \n \v \f \r, the separators 0x1c-0x1f, the space, NEL, the no-break
\* space, and the Unicode spaces; the characters outside ASCII are written
\* by their code point
Whitespace ==
    <<<<"\t", 9>>, <<"\n", 10>>, <<"", 11>>, <<"\f", 12>>,
       <<"\r", 13>>, <<"", 28>>, <<"", 29>>, <<"", 30>>,
       <<"", 31>>, <<" ", 32>>, <<"(U+0085)", 133>>, <<"(U+00A0)", 160>>,
       <<"(U+1680)", 5760>>, <<"(U+2000)", 8192>>, <<"(U+2001)", 8193>>, <<"(U+2002)", 8194>>,
       <<"(U+2003)", 8195>>, <<"(U+2004)", 8196>>, <<"(U+2005)", 8197>>, <<"(U+2006)", 8198>>,
       <<"(U+2007)", 8199>>, <<"(U+2008)", 8200>>, <<"(U+2009)", 8201>>, <<"(U+200A)", 8202>>,
       <<"(U+2028)", 8232>>, <<"(U+2029)", 8233>>, <<"(U+202F)", 8239>>, <<"(U+205F)", 8287>>,
       <<"(U+3000)", 12288>>>>

\* ord(c)
Code(c) ==
    IF \E i \in 1..Len(Whitespace) : Whitespace[i][1] = c
    THEN Whitespace[CHOOSE i \in 1..Len(Whitespace) : Whitespace[i][1] = c][2]
    ELSE 31 + (CHOOSE i \in 1..Len(Ascii) : Ascii[i] = c)

\* chr(n) for printable n
Chr(n) == Ascii[n - 31]

MinOf(S) == CHOOSE x \in S : \A y \in S : x <= y

MaxOf(S) == CHOOSE x \in S : \A y \in S : y <= x

RECURSIVE Concat(_)
\* the concatenation of the parts
Concat(parts) ==
    IF Len(parts) = 0 THEN <<>>
    ELSE IF Len(parts) = 1 THEN parts[1]
    ELSE LET half == Len(parts) \div 2
         IN  Concat(SubSeq(parts, 1, half)) \o Concat(SubSeq(parts, half + 1, Len(parts)))

\* s[a:b]
Slice(s, a, b) ==
    LET n  == Len(s)
        lo == IF a < 0 THEN (IF a + n < 0 THEN 0 ELSE a + n)
              ELSE (IF a > n THEN n ELSE a)
        hi == IF b < 0 THEN (IF b + n < 0 THEN 0 ELSE b + n)
              ELSE (IF b > n THEN n ELSE b)
    IN  IF hi <= lo THEN <<>> ELSE SubSeq(s, lo + 1, hi)

\* s[a:]
SliceFrom(s, a) == Slice(s, a, Len(s))

\* s[:b]
SliceTo(s, b) == Slice(s, 0, b)

\* sub occurs in s at 0-based position i
OccursAt(s, sub, i) ==
    /\ i >= 0
    /\ i + Len(sub) <= Len(s)
    /\ s[i + 1] = sub[1]
    /\ SubSeq(s, i + 1, i + Len(sub)) = sub

\* s.find(sub, start), for non-empty sub: lowest index or -1
Find(s, sub, start) ==
    LET cands == {i \in start..(Len(s) - Len(sub)) : OccursAt(s, sub, i)}
    IN  IF cands = {} THEN 0 - 1 ELSE MinOf(cands)

\* s.rfind(c, 0, end), for a single character c: highest index or -1
RFindChar(s, c, end) ==
    LET e     == IF end > Len(s) THEN Len(s) ELSE end
        cands == {i \in 0..(e - 1) : s[i + 1] = c}
    IN  IF cands = {} THEN 0 - 1 ELSE MaxOf(cands)

\* sub in s
Contains(s, sub) == Find(s, sub, 0) >= 0

\* str.isspace() of one character
IsSpace(c) == \E i \in 1..Len(Whitespace) : Whitespace[i][1] = c

\* s.lstrip()
LStrip(s) ==
    LET keep == {i \in 1..Len(s) : ~IsSpace(s[i])}
    IN  IF keep = {} THEN <<>> ELSE SubSeq(s, MinOf(keep), Len(s))

\* s.strip()
Strip(s) ==
    LET keep == {i \in 1..Len(s) : ~IsSpace(s[i])}
    IN  IF keep = {} THEN <<>> ELSE SubSeq(s, MinOf(keep), MaxOf(keep))

\* s.replace(old, new) for a single character old
Replace(s, old, new) ==
    Concat([i \in 1..Len(s) |-> IF s[i] = old THEN new ELSE <<s[i]>>])

RECURSIVE Split(_, _)
\* s.split(sep) for a non-empty separator
Split(s, sep) ==
    LET i == Find(s, sep, 0)
    IN  IF i < 0 THEN <<s>>
        ELSE <<SliceTo(s, i)>> \o Split(SliceFrom(s, i + Len(sep)), sep)

RECURSIVE Words(_)
\* s.split(): the maximal runs of non-whitespace characters
Words(s) ==
    LET t == LStrip(s)
        ws == {i \in 1..Len(t) : IsSpace(t[i])}
    IN  IF t = <<>> THEN <<>>
        ELSE IF ws = {} THEN <<t>>
        ELSE <<SubSeq(t, 1, MinOf(ws) - 1)>> \o Words(SubSeq(t, MinOf(ws), Len(t)))

\* c.upper() / c.lower() of one ASCII character
Upper(c) == IF Code(c) \in 97..122 THEN Chr(Code(c) - 32) ELSE c

Lower(c) == IF Code(c) \in 65..90 THEN Chr(Code(c) + 32) ELSE c

\* word.capitalize()
Capitalize(w) ==
    [i \in 1..Len(w) |-> IF i = 1 THEN Upper(w[i]) ELSE Lower(w[i])]

RECURSIVE Join(_, _)
\* sep.join(parts)
Join(parts, sep) ==
    IF parts = <<>> THEN <<>>
    ELSE IF Len(parts) = 1 THEN parts[1]
    ELSE parts[1] \o sep \o Join(Tail(parts), sep)

\* a < b for two str: decided by the code points at the first position
\* where they differ; a proper prefix is smaller
StrLess(a, b) ==
    LET n    == IF Len(a) < Len(b) THEN Len(a) ELSE Len(b)
        diff == {i \in 1..n : a[i] # b[i]}
    IN  IF diff = {} THEN Len(a) < Len(b)
        ELSE Code(a[MinOf(diff)]) < Code(b[MinOf(diff)])

\* a < b for two pathlib paths: their parts are compared, part by part
PathLess(a, b) ==
    LET n    == IF Len(a) < Len(b) THEN Len(a) ELSE Len(b)
        diff == {i \in 1..n : a[i] # b[i]}
    IN  IF diff = {} THEN Len(a) < Len(b)
        ELSE StrLess(a[MinOf(diff)], b[MinOf(diff)])

RECURSIVE SortedInts(_)
\* the elements of a finite set of integers in ascending order
SortedInts(S) ==
    IF S = {} THEN <<>> ELSE <<MinOf(S)>> \o SortedInts(S \ {MinOf(S)})

RECURSIVE InsertStr(_, _)
InsertStr(sorted, x) ==
    IF sorted = <<>> THEN <<x>>
    ELSE IF StrLess(x, Head(sorted)) THEN <<x>> \o sorted
    ELSE <<Head(sorted)>> \o InsertStr(Tail(sorted), x)

RECURSIVE SortedStrs(_)
\* sorted(xs) for a list of str: the stable ascending arrangement
SortedStrs(xs) ==
    IF xs = <<>> THEN <<>>
    ELSE InsertStr(SortedStrs(SubSeq(xs, 1, Len(xs) - 1)), xs[Len(xs)])

RECURSIVE InsertPath(_, _)
InsertPath(sorted, x) ==
    IF sorted = <<>> THEN <<x>>
    ELSE IF PathLess(x, Head(sorted)) THEN <<x>> \o sorted
    ELSE <<Head(sorted)>> \o InsertPath(Tail(sorted), x)

RECURSIVE SortedPaths(_)
\* sorted(xs) for a list of paths: the stable ascending arrangement
SortedPaths(xs) ==
    IF xs = <<>> THEN <<>>
    ELSE InsertPath(SortedPaths(SubSeq(xs, 1, Len(xs) - 1)), xs[Len(xs)])

(***************************************************************************)
(* escape_latex                                                            *)
(***************************************************************************)
\* the table with the backslash entry moved to the end
replacements_backslash_last ==
    << <<"{",  <<"\\", "{">> >>,
       <<"}",  <<"\\", "}">> >>,
       <<"$",  <<"\\", "$">> >>,
       <<"&",  <<"\\", "&">> >>,
       <<"#",  <<"\\", "#">> >>,
       <<"^",  <<"\\", "^", "{", "}">> >>,
       <<"_",  <<"\\", "_">> >>,
       <<"~",  <<"\\", "~", "{", "}">> >>,
       <<"%",  <<"\\", "%">> >>,
       <<"<",  <<"\\", "t", "e", "x", "t", "l", "e", "s", "s", "{", "}">> >>,
       <<">",  <<"\\", "t", "e", "x", "t", "g", "r", "e", "a", "t", "e", "r", "{", "}">> >>,
       <<"|",  <<"\\", "t", "e", "x", "t", "b", "a", "r", "{", "}">> >>,
       <<"\\", <<"\\", "\\">> >> >>

\* the dict of escape_latex, in insertion order
replacements ==
    << <<"\\", <<"\\", "\\">> >>,
       <<"{",  <<"\\", "{">> >>,
       <<"}",  <<"\\", "}">> >>,
       <<"$",  <<"\\", "$">> >>,
       <<"&",  <<"\\", "&">> >>,
       <<"#",  <<"\\", "#">> >>,
       <<"^",  <<"\\", "^", "{", "}">> >>,
       <<"_",  <<"\\", "_">> >>,
       <<"~",  <<"\\", "~", "{", "}">> >>,
       <<"%",  <<"\\", "%">> >>,
       <<"<",  <<"\\", "t", "e", "x", "t", "l", "e", "s", "s", "{", "}">> >>,
       <<">",  <<"\\", "t", "e", "x", "t", "g", "r", "e", "a", "t", "e", "r", "{", "}">> >>,
       <<"|",  <<"\\", "t", "e", "x", "t", "b", "a", "r", "{", "}">> >> >>

RECURSIVE ReplaceAll(_, _)
\* for old, new in replacements.items(): text = text.replace(old, new)
ReplaceAll(txt, table) ==
    IF table = <<>> THEN txt
    ELSE ReplaceAll(Replace(txt, Head(table)[1], Head(table)[2]), Tail(table))

escape_latex(txt) == ReplaceAll(txt, replacements)

(***************************************************************************)
(* Values: None and {}                                                     *)
(***************************************************************************)
\* an optional str: Python's None is told apart from the empty str
None == [some |-> FALSE, val |-> <<>>]

Some(v) == [some |-> TRUE, val |-> v]

\* the empty dict
EmptyDict == [k \in {} |-> <<>>]

\* f itself, with every value computed once (the model checker would
\* otherwise recompute f[x] at each use)
Table(f) == f @@ EmptyDict

(***************************************************************************)
(* extract_metadata                                                        *)
(***************************************************************************)
\* the keys of the patterns dict, in insertion order
MetaKeys ==
    <<"description", "tags", "servings", "prep_time", "cook_time", "author", "source">>

\* the literal part of each pattern, before the group (.+)
Label(key) ==
    CASE key = "description" -> <<"%", " ", "D", "E", "S", "C", "R", "I", "P", "T", "I", "O", "N", ":", " ">>
      [] key = "tags"        -> <<"%", " ", "T", "A", "G", "S", ":", " ">>
      [] key = "servings"    -> <<"%", " ", "S", "E", "R", "V", "I", "N", "G", "S", ":", " ">>
      [] key = "prep_time"   -> <<"%", " ", "P", "R", "E", "P", "_", "T", "I", "M", "E", ":", " ">>
      [] key = "cook_time"   -> <<"%", " ", "C", "O", "O", "K", "_", "T", "I", "M", "E", ":", " ">>
      [] key = "author"      -> <<"%", " ", "A", "U", "T", "H", "O", "R", ":", " ">>
      [] key = "source"      -> <<"%", " ", "S", "O", "U", "R", "C", "E", ":", " ">>

\* the pattern  label(.+)  matches at position i: the label, then at least
\* one character that is not a newline
MatchesAt(s, label, i) ==
    /\ OccursAt(s, label, i)
    /\ i + Len(label) < Len(s)
    /\ s[i + Len(label) + 1] # "\n"

\* match.group(1) of a match at position i: (.+) is greedy and stops at a newline
Group1(s, label, i) ==
    LET from == i + Len(label)
        nl   == Find(s, <<"\n">>, from)
    IN  IF nl < 0 THEN SliceFrom(s, from) ELSE Slice(s, from, nl)

\* the positions where re.search could match the pattern of key
MatchPositions(s, key) ==
    LET label == Label(key)
    IN  {i \in 0..(Len(s) - Len(label) - 1) : MatchesAt(s, label, i)}

\* the last match of every pattern instead of the first
extract_metadata_last(latex_content) ==
    LET pos   == [j \in 1..Len(MetaKeys) |-> MatchPositions(latex_content, MetaKeys[j])]
        found == {j \in 1..Len(MetaKeys) : pos[j] # {}}
    IN  [k \in {MetaKeys[j] : j \in found} |->
            LET j == CHOOSE j \in found : MetaKeys[j] = k
            IN  Group1(latex_content, Label(k), MaxOf(pos[j]))]

\* re.search returns the leftmost match
extract_metadata(latex_content) ==
    LET pos   == [j \in 1..Len(MetaKeys) |-> MatchPositions(latex_content, MetaKeys[j])]
        found == {j \in 1..Len(MetaKeys) : pos[j] # {}}
    IN  [k \in {MetaKeys[j] : j \in found} |->
            LET j == CHOOSE j \in found : MetaKeys[j] = k
            IN  Group1(latex_content, Label(k), MinOf(pos[j]))]

(***************************************************************************)
(* get_recipe_latex                                                        *)
(***************************************************************************)
start_marker == <<"%", " ", "B", "E", "G", "I", "N", "_", "R", "E", "C", "I", "P", "E", "_", "C", "O", "N", "T", "E", "N", "T">>

end_marker == <<"%", " ", "E", "N", "D", "_", "R", "E", "C", "I", "P", "E", "_", "C", "O", "N", "T", "E", "N", "T">>

title_start_marker == <<"%", " ", "B", "E", "G", "I", "N", "_", "T", "I", "T", "L", "E">>

title_end_marker == <<"%", " ", "E", "N", "D", "_", "T", "I", "T", "L", "E">>

NotFoundText == <<"n", "o", "t", " ", "f", "o", "u", "n", "d">>

\* What one subprocess.run call does.  kind "exit": the process ran and
\* ended with returncode, stdout and stderr.  kind "FileNotFoundError": the
\* executable does not exist, so subprocess.run raises before any process
\* runs.  kind "PermissionError": the process cannot be started for another
\* reason, subprocess.run raises too.
Exit(rc, out, err) ==
    [kind |-> "exit", returncode |-> rc, stdout |-> out, stderr |-> err]

Raises(exc) ==
    [kind |-> exc, returncode |-> 0 - 1, stdout |-> <<>>, stderr |-> <<>>]

\* result.returncode != 0 and "not found" in result.stderr
NeedsFallback(result) ==
    /\ result.kind = "exit"
    /\ result.returncode # 0
    /\ Contains(result.stderr, NotFoundText)

\* content[start_pos:end_pos].strip() of lines 76-78
RecipeContent(content) ==
    LET start_match == Find(content, start_marker, 0)
        end_match   == Find(content, end_marker, 0)
        start_pos   == Find(content, <<"\n">>, start_match) + 1
        end_pos     == RFindChar(content, "\n", end_match)
    IN  Strip(Slice(content, start_pos, end_pos))

\* lines 82-89: cut from BEGIN_TITLE to the newline after END_TITLE
RemoveTitle(recipe_content) ==
    LET title_start == Find(recipe_content, title_start_marker, 0)
        title_end   == Find(recipe_content, title_end_marker, 0)
        title_end_e == title_end + Len(title_end_marker)
        nl          == Find(recipe_content, <<"\n">>, title_end_e)
        title_end_pos == IF nl = 0 - 1 THEN title_end_e ELSE nl
    IN  IF title_start >= 0 /\ title_end >= 0
        THEN SliceTo(recipe_content, title_start)
                 \o LStrip(SliceFrom(recipe_content, title_end_pos))
        ELSE recipe_content

\* lines 60-93: what a successful invocation's stdout is turned into
ParseOutput(content) ==
    LET metadata == extract_metadata(content)
    IN  IF Find(content, start_marker, 0) >= 0 /\ Find(content, end_marker, 0) >= 0
        THEN [content |-> Some(RemoveTitle(RecipeContent(content))),
              metadata |-> metadata]
        ELSE [content |-> None, metadata |-> metadata]

\* get_recipe_latex, given what the "cook" invocation (primary) and the
\* "cargo run" invocation (secondary) do when they are made; runs lists the
\* invocations made
get_recipe_latex(primary, secondary) ==
    IF primary.kind # "exit"
    THEN \* subprocess.run raised: except branch, then line 98
         [content |-> None, metadata |-> EmptyDict, runs |-> <<"cook">>]
    ELSE IF NeedsFallback(primary)
    THEN IF secondary.kind # "exit"
         THEN [content |-> None, metadata |-> EmptyDict, runs |-> <<"cook", "cargo">>]
         ELSE IF secondary.returncode # 0
         THEN [content |-> None, metadata |-> EmptyDict, runs |-> <<"cook", "cargo">>]
         ELSE ParseOutput(secondary.stdout) @@ [runs |-> <<"cook", "cargo">>]
    ELSE IF primary.returncode # 0
    THEN [content |-> None, metadata |-> EmptyDict, runs |-> <<"cook">>]
    ELSE ParseOutput(primary.stdout) @@ [runs |-> <<"cook">>]

(***************************************************************************)
(* The file tree the generator is run on, and what the converter does for  *)
(* each recipe of it.  A path is the sequence of its parts.                *)
(***************************************************************************)
NL == <<"\n">>

Recipes == <<"r", "e", "c", "i", "p", "e", "s">>

More == <<"m", "o", "r", "e">>

Empty == <<"e", "m", "p", "t", "y">>

Desserts == <<"d", "e", "s", "s", "e", "r", "t", "s">>

MainDishesDir == <<"m", "a", "i", "n", "_", "d", "i", "s", "h", "e", "s">>

F_soup == <<Recipes, <<"s", "o", "u", "p", ".", "c", "o", "o", "k">> >>

F_cake == <<Recipes, Desserts, <<"c", "a", "k", "e", ".", "c", "o", "o", "k">> >>

F_pie == <<Recipes, Desserts, <<"a", "p", "p", "l", "e", "_", "p", "i", "e", ".", "c", "o", "o", "k">> >>

F_tea == <<More, <<"t", "e", "a", ".", "c", "o", "o", "k">> >>

F_stew == <<More, MainDishesDir, <<"s", "t", "e", "w", ".", "c", "o", "o", "k">> >>

\* the directories generate / scan_recipes are called on
Roots == {Recipes, More, Empty}

\* the *.cook files below each root
CookFiles(root) ==
    IF root = Recipes THEN {F_soup, F_cake, F_pie}
    ELSE IF root = More THEN {F_tea, F_stew}
    ELSE {}

AllCookFiles == UNION {CookFiles(r) : r \in Roots}

\* the other files of the tree
OtherFiles ==
    { <<Recipes, Desserts, <<"c", "a", "k", "e", ".", "J", "P", "G">> >>,
      <<Recipes, Desserts, <<"c", "a", "k", "e", ".", "j", "p", "e", "g">> >>,
      <<Recipes, <<"s", "o", "u", "p", ".", "t", "x", "t">> >> }

\* stdout of the converter for each recipe, when it runs
SoupOut ==
    Label("tags") \o <<"a", ",", " ", "b">> \o NL
      \o Label("author") \o <<"A", "l">> \o NL
      \o start_marker \o NL
      \o title_start_marker \o NL \o <<"S", "o", "u", "p">> \o NL \o title_end_marker \o NL
      \o <<"B", "o", "i", "l", ".">> \o NL
      \o end_marker \o NL

CakeOut ==
    Label("tags") \o <<"s", "w", "e", "e", "t">> \o NL
      \o start_marker \o NL \o <<"M", "i", "x", ".">> \o NL

PieOut ==
    start_marker \o NL \o <<"B", "a", "k", "e", ".">> \o NL \o end_marker \o NL

TeaOut ==
    start_marker \o NL
      \o title_start_marker \o NL \o <<"T", "e", "a">> \o NL \o title_end_marker \o NL
      \o end_marker \o NL

ParseError == <<"p", "a", "r", "s", "e", " ", "e", "r", "r", "o", "r">>

ShNotFound == <<"s", "h", ":", " ", "c", "o", "o", "k", ":", " ", "n", "o", "t", " ", "f", "o", "u", "n", "d">>

\* what the converter does with a recipe once it runs
ConverterRun(file) ==
    IF file = F_soup THEN Exit(0, SoupOut, <<>>)
    ELSE IF file = F_cake THEN Exit(0, CakeOut, <<>>)
    ELSE IF file = F_pie THEN Exit(0, PieOut, <<>>)
    ELSE IF file = F_tea THEN Exit(0, TeaOut, <<>>)
    ELSE Exit(1, <<>>, ParseError)

\* how the converter is installed: "cook" on the PATH; "none": no cook
\* executable and no cargo; "wrapper": cook is a shell wrapper whose target
\* is missing (exit 127, "not found" on stderr) and cargo can build and run it
Toolchains == {"cook", "none", "wrapper"}

\* subprocess.run(["cook", "recipe", "-f", "latex", path])
CookRun(tl, file) ==
    IF tl = "cook" THEN ConverterRun(file)
    ELSE IF tl = "none" THEN Raises("FileNotFoundError")
    ELSE Exit(127, <<>>, ShNotFound)

\* subprocess.run(["cargo", "run", "--", "recipe", "-f", "latex", path])
CargoRun(tl, file) ==
    IF tl = "wrapper" THEN ConverterRun(file) ELSE Raises("FileNotFoundError")

\* get_recipe_latex(recipe_file) for every toolchain and recipe of the tree
LatexTable ==
    Table([tl \in Toolchains |->
        Table([file \in AllCookFiles |->
            get_recipe_latex(CookRun(tl, file), CargoRun(tl, file))])])

(***************************************************************************)
(* scan_recipes, format_chapter_name, find_recipe_image                    *)
(***************************************************************************)
MainDishes == <<"M", "a", "i", "n", " ", "D", "i", "s", "h", "e", "s">>

format_chapter_name(name) ==
    LET spaced == Replace(Replace(name, "_", <<" ">>), "-", <<" ">>)
        words  == Words(spaced)
    IN  Join([i \in 1..Len(words) |-> Capitalize(words[i])], <<" ">>)

\* the chapter of lines 126-132; root is the single part of recipe_dir
ChapterOf(cook_file) ==
    LET rel_path == Tail(cook_file)
    IN  IF Len(rel_path) > 1 THEN format_chapter_name(rel_path[1]) ELSE MainDishes

\* lines 134-137
AddRecipe(chaps, cook_file) ==
    LET chapter == ChapterOf(cook_file)
    IN  [c \in (DOMAIN chaps) \cup {chapter} |->
            IF c = chapter
            THEN (IF c \in DOMAIN chaps THEN chaps[c] ELSE <<>>) \o <<cook_file>>
            ELSE chaps[c]]

RECURSIVE scan_recipes(_, _)
\* self.chaps after scan_recipes, the walk yielding the files of found in order
scan_recipes(chaps, found) ==
    IF found = <<>> THEN chaps
    ELSE scan_recipes(AddRecipe(chaps, Head(found)), Tail(found))

\* PurePath.stem of a file name
Stem(name) ==
    LET i == RFindChar(name, ".", Len(name))
    IN  IF 0 < i /\ i < Len(name) - 1 THEN SliceTo(name, i) ELSE name

\* line 314
RecipeName(recipe_file) ==
    Replace(Replace(Stem(recipe_file[Len(recipe_file)]), "_", <<" ">>), "-", <<" ">>)

image_extensions ==
    << <<".", "p", "n", "g">>, <<".", "j", "p", "g">>, <<".", "j", "p", "e", "g">>,
       <<".", "P", "N", "G">>, <<".", "J", "P", "G">>, <<".", "J", "P", "E", "G">> >>

\* the path object or None
find_recipe_image(recipe_file) ==
    LET recipe_dir  == SubSeq(recipe_file, 1, Len(recipe_file) - 1)
        recipe_stem == Stem(recipe_file[Len(recipe_file)])
        hits == {i \in 1..Len(image_extensions) :
                    recipe_dir \o <<recipe_stem \o image_extensions[i]>> \in OtherFiles}
    IN  IF hits = {} THEN [some |-> FALSE, val |-> <<>>]
        ELSE [some |-> TRUE,
              val |-> recipe_dir \o <<recipe_stem \o image_extensions[MinOf(hits)]>>]

\* str(path.absolute()), the working directory being /w
AbsoluteStr(path) == <<"/", "w", "/">> \o Join(path, <<"/">>)

(***************************************************************************)
(* The output document.  It is the sequence of the pieces generate writes; *)
(* a piece has a kind (which f.write or which part of the header it is)    *)
(* and the texts formatted into it.  src and blk are annotations: the      *)
(* recipe_file of the loop iteration that wrote the piece and the number   *)
(* of that iteration (0 outside the recipe loop).                          *)
(***************************************************************************)
Piece(kind, key, a, b) ==
    [kind |-> kind, key |-> key, a |-> a, b |-> b, src |-> <<>>, blk |-> 0]

\* a configuration is the constructor's arguments
Config(t, au, idx, toc) ==
    [title |-> t, author |-> au, include_index |-> idx, include_toc |-> toc]

generate_header(cfg) ==
    <<Piece("documentclass", "", <<>>, <<>>)>>
      \o (IF cfg.include_index THEN <<Piece("usepackage_makeidx", "", <<>>, <<>>)>> ELSE <<>>)
      \o <<Piece("preamble", "", <<>>, <<>>)>>
      \o (IF cfg.include_index THEN <<Piece("makeindex", "", <<>>, <<>>)>> ELSE <<>>)
      \o <<Piece("pagestyle", "", escape_latex(cfg.title), <<>>),
           Piece("titlepage", "", escape_latex(cfg.title), <<>>)>>
      \o (IF cfg.author.some /\ cfg.author.val # <<>>
          THEN <<Piece("titlepage_author", "", escape_latex(cfg.author.val), <<>>)>>
          ELSE <<>>)
      \o <<Piece("end_titlepage", "", <<>>, <<>>)>>
      \o (IF cfg.include_toc THEN <<Piece("tableofcontents", "", <<>>, <<>>)>> ELSE <<>>)

generate_footer(cfg) ==
    (IF cfg.include_index THEN <<Piece("printindex", "", <<>>, <<>>)>> ELSE <<>>)
      \o <<Piece("end_document", "", <<>>, <<>>)>>

\* the tags value written as one entry, not split
TagEntriesUnsplit(tags_value, recipe_name) ==
    <<Piece("index_tag", "", escape_latex(tags_value), escape_latex(recipe_name))>>

\* lines 326-328
TagEntries(tags_value, recipe_name) ==
    LET tags == Split(tags_value, <<",", " ">>)
    IN  [i \in 1..Len(tags) |->
            Piece("index_tag", "", escape_latex(tags[i]), escape_latex(recipe_name))]

\* lines 321-332
IndexEntries(cfg, recipe_name, metadata) ==
    IF cfg.include_index
    THEN <<Piece("index", "", escape_latex(recipe_name), <<>>)>>
           \o (IF "tags" \in DOMAIN metadata
               THEN TagEntries(metadata["tags"], recipe_name) ELSE <<>>)
           \o (IF "author" \in DOMAIN metadata
               THEN <<Piece("index_author", "", escape_latex(metadata["author"]),
                            escape_latex(recipe_name))>>
               ELSE <<>>)
    ELSE <<>>

RECURSIVE PresentKeys(_, _)
\* the keys of metadata, in the insertion order of extract_metadata
PresentKeys(keys, metadata) ==
    IF keys = <<>> THEN <<>>
    ELSE (IF Head(keys) \in DOMAIN metadata THEN <<Head(keys)>> ELSE <<>>)
           \o PresentKeys(Tail(keys), metadata)

\* lines 335-339
MetadataComments(recipe_name, metadata) ==
    LET keys == PresentKeys(MetaKeys, metadata)
    IN  IF DOMAIN metadata # {}
        THEN <<Piece("comment_recipe", "", recipe_name, <<>>)>>
               \o [i \in 1..Len(keys) |-> Piece("comment_meta", keys[i], metadata[keys[i]], <<>>)]
               \o <<Piece("blank", "", <<>>, <<>>)>>
        ELSE <<>>

\* lines 342-349
TitlePieces(recipe_name) ==
    <<Piece("phantomsection", "", <<>>, <<>>),
      Piece("addcontentsline", "", escape_latex(recipe_name), <<>>),
      Piece("begin_center", "", <<>>, <<>>),
      Piece("huge_title", "", escape_latex(recipe_name), <<>>),
      Piece("end_center", "", <<>>, <<>>),
      Piece("vspace", "", <<>>, <<>>)>>

\* lines 352-360
ImagePieces(recipe_file) ==
    LET image_path == find_recipe_image(recipe_file)
    IN  IF image_path.some
        THEN <<Piece("begin_center", "", <<>>, <<>>),
               Piece("includegraphics", "", AbsoluteStr(image_path.val), <<>>),
               Piece("end_center", "", <<>>, <<>>),
               Piece("vspace", "", <<>>, <<>>)>>
        ELSE <<>>

\* lines 363-368: "if content:" is false for None and for the empty str
ContentPieces(content) ==
    IF content.some /\ content.val # <<>>
    THEN <<Piece("content", "", content.val, <<>>), Piece("clearpage", "", <<>>, <<>>)>>
    ELSE <<Piece("placeholder", "", <<>>, <<>>), Piece("clearpage", "", <<>>, <<>>)>>

DefaultTitle == <<"Q", "&", "A">>

AuthorName == <<"A", "l", "_", "B">>

\* the constructor arguments tried
Configs ==
    { Config(DefaultTitle, None, TRUE, TRUE),
      Config(DefaultTitle, Some(AuthorName), TRUE, FALSE),
      Config(DefaultTitle, Some(AuthorName), FALSE, TRUE),
      Config(DefaultTitle, None, FALSE, FALSE) }

\* the pieces one iteration of the recipe loop writes, lines 314-368
RecipePieces(cfg, tl, recipe_file) ==
    LET recipe_name == RecipeName(recipe_file)
        result == LatexTable[tl][recipe_file]
    IN  IndexEntries(cfg, recipe_name, result.metadata)
          \o MetadataComments(recipe_name, result.metadata)
          \o TitlePieces(recipe_name)
          \o ImagePieces(recipe_file)
          \o ContentPieces(result.content)

\* RecipePieces for every configuration, toolchain and recipe of the tree
RecipePiecesTable ==
    Table([cfg \in Configs |->
        Table([tl \in Toolchains |->
            Table([file \in AllCookFiles |-> RecipePieces(cfg, tl, file)])])])

\* the body of the recipe loop as iteration number blk
RecipeBlock(cfg, tl, recipe_file, blk) ==
    LET pieces == RecipePiecesTable[cfg][tl][recipe_file]
    IN  [i \in 1..Len(pieces) |-> [pieces[i] EXCEPT !.src = recipe_file, !.blk = blk]]

RECURSIVE SeqOfSet(_)
\* the elements of a finite set in some order
SeqOfSet(S) ==
    IF S = {} THEN <<>>
    ELSE LET x == CHOOSE x \in S : TRUE IN <<x>> \o SeqOfSet(S \ {x})

\* the recipes of a chapter in the order the walk found them
RecipeOrderAsFound(files) == files

\* sorted(self.chapters[chapter_name])
RecipeOrder(files) == SortedPaths(files)

\* sorted(self.chapters.keys())
ChapterOrder(chaps) == SortedStrs(SeqOfSet(DOMAIN chaps))

RECURSIVE CountBefore(_, _, _)
\* the number of recipes in the chaps visited before the i-th
CountBefore(chaps, names, i) ==
    IF i <= 1 THEN 0
    ELSE CountBefore(chaps, names, i - 1) + Len(chaps[names[i - 1]])

\* everything written between open and close, lines 305-371
WriteDocument(cfg, tl, chaps) ==
    LET names == ChapterOrder(chaps)
        ChapterPieces(i) ==
            LET files == RecipeOrder(chaps[names[i]])
            IN  <<Piece("chapter", "", escape_latex(names[i]), <<>>)>>
                  \o Concat([j \in 1..Len(files) |->
                        RecipeBlock(cfg, tl, files[j],
                                    CountBefore(chaps, names, i) + j)])
    IN  generate_header(cfg)
          \o Concat([i \in 1..Len(names) |-> ChapterPieces(i)])
          \o generate_footer(cfg)

(***************************************************************************)
(* State                                                                   *)
(***************************************************************************)
VARIABLES
    \* the generator object: self.title, self.author, self.include_index,
    \* self.include_toc, self.chapters
    title, author, include_index, include_toc, chapters,
    \* the converter installation of the machine the generator runs on
    tool,
    \* the last call made on the generator: its operation, its recipe_dir,
    \* the files in the order the walk yielded them, self.chapters before it
    call,
    \* the number of calls made on the generator
    ncalls,
    \* what the last call returned: "none" (scan_recipes), "True", "False"
    ret,
    \* whether the last call opened the output file
    opened,
    \* the content of the output file
    outfile,
    \* get_recipe_latex run on its own: what the two invocations do when
    \* made, and the value returned (latex.done is false before the call)
    cook, cargo, latex,
    \* escape_latex run on its own: its argument and its result
    text, escaped

vars ==
    <<title, author, include_index, include_toc, chapters, tool, call, ncalls,
      ret, opened, outfile, cook, cargo, latex, text, escaped>>

generatorVars ==
    <<title, author, include_index, include_toc, chapters, tool, call, ncalls,
      ret, opened, outfile>>

latexVars == <<cook, cargo, latex>>

escapeVars == <<text, escaped>>

\* self as a configuration
Self == Config(title, author, include_index, include_toc)

NoCall == [op |-> "none", root |-> <<>>, found |-> <<>>, before |-> EmptyDict]

NoLatex ==
    [done |-> FALSE, content |-> None, metadata |-> EmptyDict, runs |-> <<>>]

\* the states in which a part of the model is not in use
IdleGenerator ==
    /\ title = <<>> /\ author = None /\ include_index = FALSE /\ include_toc = FALSE
    /\ chapters = EmptyDict /\ tool = "cook" /\ call = NoCall /\ ncalls = 0
    /\ ret = "none" /\ opened = FALSE /\ outfile = <<>>

IdleLatex ==
    /\ cook = Raises("FileNotFoundError") /\ cargo = Raises("FileNotFoundError")
    /\ latex = NoLatex

IdleEscape == text = <<>> /\ escaped = None

(***************************************************************************)
(* The generator: __init__, scan_recipes, generate                         *)
(***************************************************************************)
\* the orders in which a walk can yield the files of S
WalkOrders(S) ==
    {f \in [1..Cardinality(S) -> S] : \A i, j \in 1..Cardinality(S) : f[i] = f[j] => i = j}

\* the state after __init__
Init ==
    /\ \E cfg \in Configs :
          /\ title = cfg.title
          /\ author = cfg.author
          /\ include_index = cfg.include_index
          /\ include_toc = cfg.include_toc
    /\ chapters = EmptyDict
    /\ tool \in Toolchains
    /\ call = NoCall
    /\ ncalls = 0
    /\ ret = "none"
    /\ opened = FALSE
    /\ outfile = <<>>
    /\ IdleLatex
    /\ IdleEscape

\* scan_recipes(recipe_dir) called directly
ScanRecipes ==
    /\ ncalls < MaxCalls
    /\ \E root \in Roots : \E found \in WalkOrders(CookFiles(root)) :
          /\ chapters' = scan_recipes(chapters, found)
          /\ call' = [op |-> "scan_recipes", root |-> root, found |-> found,
                      before |-> chapters]
    /\ ncalls' = ncalls + 1
    /\ ret' = "none"
    /\ opened' = FALSE
    /\ UNCHANGED <<title, author, include_index, include_toc, tool, outfile>>
    /\ UNCHANGED <<latexVars, escapeVars>>

\* generate(recipe_dir, output_file)
Generate ==
    /\ ncalls < MaxCalls
    /\ \E root \in Roots : \E found \in WalkOrders(CookFiles(root)) :
          LET scanned == scan_recipes(chapters, found)
          IN  /\ chapters' = scanned
              /\ call' = [op |-> "generate", root |-> root, found |-> found,
                          before |-> chapters]
              /\ IF DOMAIN scanned = {}
                 THEN /\ ret' = "False"
                      /\ opened' = FALSE
                      /\ outfile' = outfile
                 ELSE /\ ret' = "True"
                      /\ opened' = TRUE
                      /\ outfile' = WriteDocument(Self, tool, scanned)
    /\ ncalls' = ncalls + 1
    /\ UNCHANGED <<title, author, include_index, include_toc, tool>>
    /\ UNCHANGED <<latexVars, escapeVars>>

Next == ScanRecipes \/ Generate

Spec == Init /\ [][Next]_vars

(***************************************************************************)
(* get_recipe_latex on its own                                             *)
(***************************************************************************)
\* all sequences of at most n elements of S
SeqsUpTo(S, n) == UNION {[1..k -> S] : k \in 0..n}

\* converter outputs made of the content markers, newlines, text and
\* whitespace (a space, a form feed)
MarkerTexts ==
    {Concat(ts) : ts \in SeqsUpTo({start_marker, end_marker, NL, <<"x">>, <<" ">>, <<"\f">>}, MaxTokens)}

\* converter outputs with well-placed content markers around title markers,
\* newlines, text and whitespace
TitleTexts ==
    {start_marker \o NL \o Concat(ts) \o NL \o end_marker \o NL :
        ts \in SeqsUpTo({title_start_marker, title_end_marker, NL, <<"x">>, <<" ">>, <<"\f">>},
                        MaxTokens)}

\* converter outputs made of metadata lines and the content markers
MetaTexts ==
    {Concat(ts) :
        ts \in SeqsUpTo({Label("tags"), Label("author"), NL, <<"v">>,
                         start_marker \o NL, end_marker}, MaxTokens)}

\* an output that carries all seven labels, SERVINGS twice, outside the markers
AllLabelsOut ==
    Label("servings") \o <<"2">> \o NL \o start_marker \o NL \o <<"x">> \o NL \o end_marker \o NL
      \o Label("description") \o <<"d">> \o NL \o Label("tags") \o <<"t">> \o NL
      \o Label("servings") \o <<"4">> \o NL \o Label("prep_time") \o <<"5">> \o NL
      \o Label("cook_time") \o <<"6">> \o NL \o Label("author") \o <<"A">> \o NL
      \o Label("source") \o <<"s">>

Texts == MarkerTexts \cup TitleTexts \cup MetaTexts \cup {AllLabelsOut, SoupOut}

\* what an invocation can do other than exit with status 0
Failures ==
    { Raises("FileNotFoundError"),
      Raises("PermissionError"),
      Exit(1, <<>>, ParseError),
      Exit(1, SoupOut, ParseError),
      Exit(127, <<>>, ShNotFound),
      Exit(2, CakeOut, ShNotFound) }

\* the pairs (what "cook" does, what "cargo run" does)
LatexInputs ==
    ({Exit(0, t, <<>>) : t \in Texts} \X {Raises("FileNotFoundError")})
      \cup ({Exit(0, SoupOut, ShNotFound)} \X Failures)
      \cup (Failures \X (Failures \cup {Exit(0, t, <<>>) : t \in {SoupOut, CakeOut, AllLabelsOut, <<>>}}))

InitLatex ==
    /\ IdleGenerator
    /\ IdleEscape
    /\ \E in \in LatexInputs : cook = in[1] /\ cargo = in[2]
    /\ latex = NoLatex

\* one call of get_recipe_latex(recipe_path)
GetRecipeLatex ==
    /\ ~latex.done
    /\ latex' = [done |-> TRUE] @@ get_recipe_latex(cook, cargo)
    /\ UNCHANGED <<cook, cargo>>
    /\ UNCHANGED <<generatorVars, escapeVars>>

NextLatex == GetRecipeLatex

SpecLatex == InitLatex /\ [][NextLatex]_vars

(***************************************************************************)
(* escape_latex on its own                                                 *)
(***************************************************************************)
\* the characters of the table and one that is not in it
EscapeAlphabet ==
    {"\\", "{", "}", "$", "&", "#", "^", "_", "~", "%", "<", ">", "|", "a"}

InitEscape ==
    /\ IdleGenerator
    /\ IdleLatex
    /\ text \in SeqsUpTo(EscapeAlphabet, MaxLen)
    /\ escaped = None

\* one call of escape_latex(text)
EscapeLatex ==
    /\ ~escaped.some
    /\ escaped' = Some(escape_latex(text))
    /\ UNCHANGED text
    /\ UNCHANGED <<generatorVars, latexVars>>

NextEscape == EscapeLatex

SpecEscape == InitEscape /\ [][NextEscape]_vars

(***************************************************************************)
(* Properties of escape_latex                                              *)
(***************************************************************************)
\* the replacement the table gives for one character, the character itself
\* when the table has no entry for it
ReplacementOf(c) ==
    LET hits == {i \in 1..Len(replacements) : replacements[i][1] = c}
    IN  IF hits = {} THEN <<c>> ELSE replacements[CHOOSE i \in hits : TRUE][2]

\* C5: the result of escape_latex is the concatenation of the replacements
\* of the input's characters, in order: every table character of the input
\* is replaced exactly once and no character a replacement introduced (its
\* backslash, its braces) is replaced again.
C5_EscapeIsPerCharacter ==
    escaped.some =>
        escaped.val = Concat([i \in 1..Len(text) |-> ReplacementOf(text[i])])

\* an escaped text that had a backslash before a brace and a caret
C5_Witness ==
    /\ escaped.some
    /\ Len(text) = 3
    /\ text[1] = "\\" /\ text[2] = "{" /\ text[3] = "^"

(***************************************************************************)
(* Properties of get_recipe_latex                                          *)
(***************************************************************************)
\* the invocation whose result get_recipe_latex keeps
KeptRun == IF NeedsFallback(cook) THEN cargo ELSE cook

\* that invocation ran and exited with status 0
Succeeded == KeptRun.kind = "exit" /\ KeptRun.returncode = 0

RawOutput == KeptRun.stdout

HasMarkers(s) == Contains(s, start_marker) /\ Contains(s, end_marker)

\* label, then at least one character other than a newline, at position i
LabelledAt(s, label, i) ==
    /\ OccursAt(s, label, i)
    /\ i + Len(label) < Len(s)
    /\ s[i + Len(label) + 1] # "\n"

\* v is the rest of the line that follows label at position i
ValueAt(s, label, i, v) ==
    LET from == i + Len(label)
    IN  /\ v # <<>>
        /\ from + Len(v) <= Len(s)
        /\ SubSeq(s, from + 1, from + Len(v)) = v
        /\ \A j \in 1..Len(v) : v[j] # "\n"
        /\ (from + Len(v) = Len(s) \/ s[from + Len(v) + 1] = "\n")

\* md holds, for each of the seven labels, the value at the label's first
\* occurrence in s, and nothing for a label that does not occur
FirstMatches(s, md) ==
    /\ DOMAIN md \subseteq {MetaKeys[j] : j \in 1..Len(MetaKeys)}
    /\ \A j \in 1..Len(MetaKeys) :
          LET key   == MetaKeys[j]
              label == Label(key)
              occ   == {i \in 0..Len(s) : LabelledAt(s, label, i)}
          IN  IF occ = {} THEN key \notin DOMAIN md
              ELSE /\ key \in DOMAIN md
                   /\ \E i \in occ :
                         /\ \A i2 \in occ : i <= i2
                         /\ ValueAt(s, label, i, md[key])

\* C7: after a successful invocation the metadata returned is the first
\* match of each of the seven labels over the full raw output, markers or
\* not; when a content marker is missing the fragment is absent and that
\* metadata is still returned; an absent fragment always comes with a
\* metadata mapping.
C7_MetadataFirstMatch ==
    latex.done =>
        /\ Succeeded =>
              /\ FirstMatches(RawOutput, latex.metadata)
              /\ (~HasMarkers(RawOutput) => ~latex.content.some)
        /\ ~latex.content.some =>
              DOMAIN latex.metadata \subseteq {MetaKeys[j] : j \in 1..Len(MetaKeys)}

\* the tags label twice on one output without an end marker: the first
\* value is kept and the fragment is absent
C7_Witness ==
    /\ latex.done
    /\ Succeeded
    /\ ~Contains(RawOutput, end_marker)
    /\ Cardinality(MatchPositions(RawOutput, "tags")) = 2
    /\ "tags" \in DOMAIN latex.metadata
    /\ ~latex.content.some

\* the primary invocation failed because the converter binary is missing:
\* the executable does not exist, or a wrapper reported it as not found
BinaryMissing(run) ==
    \/ run.kind = "FileNotFoundError"
    \/ NeedsFallback(run)

FallbackRuns == Cardinality({i \in 1..Len(latex.runs) : latex.runs[i] = "cargo"})

\* C8: the fallback invocation runs exactly once when the primary
\* invocation failed because the converter binary is missing and not at
\* all otherwise; at most two invocations are made; when no invocation
\* exits with status 0 the result is (None, {}).
C8_FallbackOnlyWhenBinaryMissing ==
    latex.done =>
        /\ FallbackRuns = (IF BinaryMissing(cook) THEN 1 ELSE 0)
        /\ Len(latex.runs) <= 2
        /\ (~Succeeded => ~latex.content.some /\ latex.metadata = EmptyDict)

\* the text between the line that follows the first begin marker and the
\* line that precedes the first end marker, trimmed
BetweenMarkerLines(s) ==
    LET b       == Find(s, start_marker, 0)
        e       == Find(s, end_marker, 0)
        nlAfter == {i \in b..(Len(s) - 1) : s[i + 1] = "\n"}
        nlBefore == {i \in 0..(e - 1) : s[i + 1] = "\n"}
        from    == IF nlAfter = {} THEN Len(s) ELSE MinOf(nlAfter) + 1
        to      == IF nlBefore = {} THEN 0 ELSE MaxOf(nlBefore)
    IN  Strip(IF to <= from THEN <<>> ELSE SubSeq(s, from + 1, to))

HasTitleMarkers(s) == Contains(s, title_start_marker) /\ Contains(s, title_end_marker)

\* C9: whenever both content markers occur in the output, wherever they
\* are, the content taken is the trimmed text between the line after the
\* begin marker and the line before the end marker (no title block being
\* there to remove).
C9_ContentBetweenMarkers ==
    (latex.done /\ Succeeded /\ HasMarkers(RawOutput) /\ ~HasTitleMarkers(RawOutput)) =>
        latex.content = Some(BetweenMarkerLines(RawOutput))

\* fragment is rc with one stretch cut out that covers both title markers
TitleBlockCut(rc, fragment) ==
    LET ts == Find(rc, title_start_marker, 0)
        te == Find(rc, title_end_marker, 0)
        lo == IF ts < te THEN ts ELSE te
        hi == IF ts < te THEN te + Len(title_end_marker) ELSE ts + Len(title_start_marker)
    IN  \E a \in 0..lo : \E b \in hi..Len(rc) :
            fragment = SubSeq(rc, 1, a) \o SubSeq(rc, b + 1, Len(rc))

\* C10: when the content between the markers has a title begin marker and
\* a title end marker, in either order, the fragment is that content with
\* the stretch holding both markers removed and the rest kept once, in order.
C10_TitleBlockRemoved ==
    (latex.done /\ Succeeded /\ HasMarkers(RawOutput)
       /\ HasTitleMarkers(BetweenMarkerLines(RawOutput))
       /\ RecipeContent(RawOutput) = BetweenMarkerLines(RawOutput)) =>
        /\ latex.content.some
        /\ TitleBlockCut(BetweenMarkerLines(RawOutput), latex.content.val)

(***************************************************************************)
(* Properties of scan_recipes and generate                                 *)
(***************************************************************************)
\* the last call was generate and it wrote the document
Generated == call.op = "generate" /\ ret = "True"

\* how often x occurs in the sequence xs
Count(xs, x) == Cardinality({i \in 1..Len(xs) : xs[i] = x})

\* the number of recipes listed in the chapter mapping
TotalRecipes ==
    LET names == SeqOfSet(DOMAIN chapters)
    IN  CountBefore(chapters, names, Len(names) + 1)

\* the positions of the output written by loop iteration b
BlockPositions(b) == {i \in 1..Len(outfile) : outfile[i].blk = b}

\* the pieces written by loop iteration b, in order
Block(b) ==
    IF BlockPositions(b) = {} THEN <<>>
    ELSE SubSeq(outfile, MinOf(BlockPositions(b)), MaxOf(BlockPositions(b)))

\* the recipe loop iteration b was for
BlockRecipe(b) == outfile[MinOf(BlockPositions(b))].src

\* the pieces of one kind in a sequence of pieces
OfKind(pieces, kind) == SelectSeq(pieces, LAMBDA p : p.kind = kind)

\* C1: generate returns False exactly when recipe_dir has no recipe file,
\* and then it does not open the output file; it returns True whenever
\* recipe_dir has a recipe file, however many recipes fail.
C1_FalseIffNoRecipes ==
    call.op = "generate" =>
        /\ (ret = "False") <=> (CookFiles(call.root) = {})
        /\ (CookFiles(call.root) = {}) => ~opened

\* C6: after a call of scan_recipes (made directly or by generate), also on
\* a generator that was used before, the chapter mapping holds exactly the
\* recipe files of recipe_dir, each once, each in the chapter of its
\* top-level subdirectory or in "Main Dishes"; no chapter list is empty.
C6_ChaptersAreTheFilesOfTheScan ==
    call.op # "none" =>
        /\ \A c \in DOMAIN chapters :
              /\ chapters[c] # <<>>
              /\ \A i \in 1..Len(chapters[c]) :
                    /\ chapters[c][i] \in CookFiles(call.root)
                    /\ c = ChapterOf(chapters[c][i])
        /\ \A f \in CookFiles(call.root) :
              /\ ChapterOf(f) \in DOMAIN chapters
              /\ Count(chapters[ChapterOf(f)], f) = 1

\* C2: every recipe listed in a chapter gets exactly one block in the
\* output; the block ends with the fragment when get_recipe_latex returned
\* one and with the placeholder sentence otherwise, then a page break.
C2_OneBlockPerRecipe ==
    Generated =>
        /\ {outfile[i].blk : i \in 1..Len(outfile)} \ {0} = 1..TotalRecipes
        /\ \A f \in AllCookFiles :
              Cardinality({b \in 1..TotalRecipes : BlockRecipe(b) = f})
                = Cardinality({<<c, i>> \in (DOMAIN chapters) \X (1..TotalRecipes) :
                                  i <= Len(chapters[c]) /\ chapters[c][i] = f})
        /\ \A b \in 1..TotalRecipes :
              LET pieces   == Block(b)
                  n        == Len(pieces)
                  fragment == LatexTable[tool][BlockRecipe(b)].content
              IN  /\ n >= 2
                  /\ pieces[n].kind = "clearpage"
                  /\ IF fragment.some
                     THEN pieces[n - 1].kind = "content" /\ pieces[n - 1].a = fragment.val
                     ELSE pieces[n - 1].kind = "placeholder"

\* the positions of the chapter headings in the output
ChapterPositions == {i \in 1..Len(outfile) : outfile[i].kind = "chapter"}

\* the chapter whose heading is at position p
ChapterAt(p) == CHOOSE c \in DOMAIN chapters : escape_latex(c) = outfile[p].a

\* the recipes of the blocks written after the heading at position p and
\* before the next heading, in output order
RecipesAfter(p) ==
    LET later == {q \in ChapterPositions : q > p}
        stop  == IF later = {} THEN Len(outfile) + 1 ELSE MinOf(later)
        firsts == {i \in (p + 1)..(stop - 1) :
                      outfile[i].blk # 0 /\ outfile[i - 1].blk # outfile[i].blk}
        order == SortedInts(firsts)
    IN  [k \in 1..Len(order) |-> outfile[order[k]].src]

\* C3: the output is the header, then the chapters in ascending order of
\* name, each heading followed by the chapter's recipes in ascending order
\* of path, then the footer; and it is the same whatever the order in which
\* the walk yields the files of recipe_dir.
C3_SortedAndWalkIndependent ==
    Generated =>
        LET header == generate_header(Self)
            footer == generate_footer(Self)
        IN  /\ SubSeq(outfile, 1, Len(header)) = header
            /\ SubSeq(outfile, Len(outfile) - Len(footer) + 1, Len(outfile)) = footer
            /\ \A i \in (Len(header) + 1)..(Len(outfile) - Len(footer)) :
                  outfile[i].kind = "chapter" \/ outfile[i].blk # 0
            /\ outfile[Len(header) + 1].kind = "chapter"
            /\ Cardinality(ChapterPositions) = Cardinality(DOMAIN chapters)
            /\ \A p \in ChapterPositions :
                  /\ \E c \in DOMAIN chapters : escape_latex(c) = outfile[p].a
                  /\ \A q \in ChapterPositions :
                        p < q => StrLess(ChapterAt(p), ChapterAt(q))
                  /\ LET files == RecipesAfter(p)
                     IN  /\ Len(files) = Len(chapters[ChapterAt(p)])
                         /\ \A f \in AllCookFiles :
                               Count(files, f) = Count(chapters[ChapterAt(p)], f)
                         /\ \A k \in 1..(Len(files) - 1) :
                               ~PathLess(files[k + 1], files[k])
            /\ \A order \in WalkOrders(CookFiles(call.root)) :
                  WriteDocument(Self, tool, scan_recipes(call.before, order)) = outfile

\* generate wrote two chapters, and the walk had yielded the recipes of one
\* chapter in descending order of path
C3_Witness ==
    /\ Generated
    /\ Cardinality(DOMAIN chapters) >= 2
    /\ \E i, j \in 1..Len(call.found) :
          /\ i < j
          /\ ChapterOf(call.found[i]) = ChapterOf(call.found[j])
          /\ PathLess(call.found[j], call.found[i])

\* C4: with indexing enabled every recipe block has exactly one primary
\* index entry for the display name, one secondary entry per tag of the
\* comma-space-delimited tags value (none without a tags value), each under
\* its tag and naming the recipe, and one entry under Authors exactly when
\* an author value is present; with indexing disabled there is no index
\* entry and no index-printing directive.
C4_IndexEntries ==
    Generated =>
        IF include_index
        THEN /\ Len(OfKind(outfile, "printindex")) = 1
             /\ \A b \in 1..TotalRecipes :
                   LET pieces   == Block(b)
                       metadata == LatexTable[tool][BlockRecipe(b)].metadata
                       name     == escape_latex(RecipeName(BlockRecipe(b)))
                       primary  == OfKind(pieces, "index")
                       bytag    == OfKind(pieces, "index_tag")
                       byauthor == OfKind(pieces, "index_author")
                   IN  /\ Len(primary) = 1 /\ primary[1].a = name
                       /\ IF "tags" \in DOMAIN metadata
                          THEN LET tags == Split(metadata["tags"], <<",", " ">>)
                               IN  /\ Len(bytag) = Len(tags)
                                   /\ \A i \in 1..Len(tags) :
                                         /\ bytag[i].a = escape_latex(tags[i])
                                         /\ bytag[i].b = name
                          ELSE bytag = <<>>
                       /\ IF "author" \in DOMAIN metadata
                          THEN /\ Len(byauthor) = 1
                               /\ byauthor[1].a = escape_latex(metadata["author"])
                               /\ byauthor[1].b = name
                          ELSE byauthor = <<>>
        ELSE \A i \in 1..Len(outfile) :
                outfile[i].kind \notin {"index", "index_tag", "index_author", "printindex"}

\* an indexed document with the block of a recipe that has two tags and an
\* author, and the block of a recipe without metadata
C4_Witness ==
    /\ Generated
    /\ include_index
    /\ \E b \in 1..TotalRecipes :
          /\ BlockRecipe(b) = F_soup
          /\ Len(OfKind(Block(b), "index_tag")) = 2
          /\ Len(OfKind(Block(b), "index_author")) = 1
    /\ \E b \in 1..TotalRecipes : LatexTable[tool][BlockRecipe(b)].metadata = EmptyDict

====
